---- MODULE Spec2Model ----
(***************************************************************************)
(* The BSP test build server of SourceKit-LSP                              *)
(* (Sources/SKTestSupport/INPUTS/AbstractBuildServer.py): the receive /    *)
(* dispatch / reply loop of AbstractBuildServer.run, its handlers and      *)
(* send_raw_message, together with the peer that feeds its stdin; its      *)
(* subclasses, and the standalone testBuildTargetsChanged script.          *)
(*                                                                         *)
(* Streams are sequences of lexical units: the literal "Content-Length:",  *)
(* an integer, "\r", "\n", the braces of a JSON object and one unit per    *)
(* object member.  A JSON text's length is its number of units.            *)
(***************************************************************************)
EXTENDS Integers, Sequences, FiniteSets, TLC

VARIABLES
    server,       \* the class whose run() is executing
    stdin,        \* units written by the peer and not yet read by the server
    stdinClosed,  \* the peer has closed the server's stdin
    stdout,       \* every unit the server has written, in order
    pc,           \* position of run(): the next statement, or how it ended
    length,       \* local `length` of run()
    message,      \* local `message` of run()
    exc,          \* the exception that left run(), "" while none has
    received,     \* history: the messages passed to handle_message, in order
    sent,         \* history: the messages passed to send_raw_message, in order
    nframes,      \* number of frames the peer has written
    written,      \* history: the frames the peer has written, in order
    stdoutClosed, \* the peer has closed the server's stdout
    peer,         \* what the peer does in this run: methods, faults, frames
    chars,        \* a str handed to json.dumps, as code points
    wire,         \* the bytes send_raw_message wrote for it
    flushed       \* how many units of stdout have been flushed to the peer

vars == <<server, stdin, stdinClosed, stdout, pc, length, message, exc,
          received, sent, nframes, written, stdoutClosed, peer, chars, wire,
          flushed>>

(***************************************************************************)
(* Bounds of the model.                                                    *)
(***************************************************************************)
MaxFrames == 2
MaxTextLen == 3

(***************************************************************************)
(* JSON / Python values.                                                   *)
(***************************************************************************)
None == [ty |-> "None"]
IntVal(n) == [ty |-> "int", n |-> n]
StrVal(s) == [ty |-> "str", s |-> s]
BoolVal(b) == [ty |-> "bool", b |-> b]
ListVal(a) == [ty |-> "list", a |-> a]
Dict(f) == [ty |-> "dict", f |-> f]
NoItems == [k \in {} |-> None]
EmptyDict == Dict(NoItems)

IsDict(v) == v.ty = "dict"
\* `key in d`
Has(d, key) == IsDict(d) /\ key \in DOMAIN d.f

(***************************************************************************)
(* Units of the byte streams.                                              *)
(***************************************************************************)
TokCL == [t |-> "Content-Length:"]
TokNum(n) == [t |-> "num", n |-> n]
TokText(s) == [t |-> "text", s |-> s]
TokCR == [t |-> "\\r"]
TokLF == [t |-> "\\n"]
TokLB == [t |-> "{"]
TokRB == [t |-> "}"]
TokMember(key, val) == [t |-> "member", key |-> key, val |-> val]

\* sys.stdin ends a line at "\n" only and translates nothing.
IsNewline(u) == u = TokLF
\* Whitespace, as int() and json.loads skip it.
IsSpace(u) == u = TokCR \/ u = TokLF

\* json.dumps writes the members of a dict in insertion order; every dict
\* literal of the server lists its keys in this order.
KeyOrder == <<"jsonrpc", "id", "method", "params", "result", "error">>

\* json.dumps(message)
JsonDumps(d) ==
    LET ks == SelectSeq(KeyOrder, LAMBDA k : k \in DOMAIN d.f)
    IN  <<TokLB>> \o [i \in 1..Len(ks) |-> TokMember(ks[i], d.f[ks[i]])] \o <<TokRB>>

\* json.loads(text): whitespace between tokens is skipped, an object becomes
\* a dict (a repeated key keeps its last value), a lone number an int, and
\* anything else raises JSONDecodeError.
JsonLoads(text) ==
    LET body == SelectSeq(text, LAMBDA u : ~IsSpace(u))
        n == Len(body)
    IN  IF /\ n >= 2
           /\ body[1] = TokLB
           /\ body[n] = TokRB
           /\ \A i \in 2..(n - 1) : body[i].t = "member"
        THEN LET keys == {body[i].key : i \in 2..(n - 1)}
                 last(k) == CHOOSE i \in 2..(n - 1) :
                               /\ body[i].key = k
                               /\ \A j \in 2..(n - 1) : body[j].key = k => j <= i
             IN  [ok |-> TRUE, val |-> Dict([k \in keys |-> body[last(k)].val])]
        ELSE IF n = 1 /\ body[1].t = "num"
        THEN [ok |-> TRUE, val |-> IntVal(body[1].n)]
        ELSE [ok |-> FALSE, val |-> None]

(***************************************************************************)
(* sys.stdin, a text stream: readline() and read(n).                       *)
(***************************************************************************)
\* Index of the first line terminator of buf, 0 when it has none.
FirstNewline(buf) ==
    IF \E i \in 1..Len(buf) : IsNewline(buf[i])
    THEN CHOOSE i \in 1..Len(buf) :
            IsNewline(buf[i]) /\ \A j \in 1..(i - 1) : ~IsNewline(buf[j])
    ELSE 0

\* sys.stdin.readline(): blocks until a whole line or end-of-stream.
ReadLine(buf, closed) ==
    LET i == FirstNewline(buf)
    IN  IF i > 0
        THEN [ready |-> TRUE, data |-> SubSeq(buf, 1, i), rest |-> SubSeq(buf, i + 1, Len(buf))]
        ELSE [ready |-> closed, data |-> buf, rest |-> <<>>]

\* sys.stdin.read(n): n units, or fewer at end-of-stream; a negative n reads
\* to end-of-stream.
Read(buf, closed, n) ==
    IF n >= 0 /\ Len(buf) >= n
    THEN [ready |-> TRUE, data |-> SubSeq(buf, 1, n), rest |-> SubSeq(buf, n + 1, Len(buf))]
    ELSE [ready |-> closed, data |-> buf, rest |-> <<>>]

\* Variant: the assert statement is compiled away (python -O).
StartsWithContentLengthUnchecked(line) == TRUE

\* line.startswith("Content-Length:")
StartsWithContentLength(line) == Len(line) >= 1 /\ line[1] = TokCL

\* int(line[len("Content-Length:"):]): surrounding whitespace is ignored and
\* what is left must be one integer literal, else ValueError.
ParseInt(line) ==
    LET text == SelectSeq(SubSeq(line, 2, Len(line)), LAMBDA u : ~IsSpace(u))
    IN  IF Len(text) = 1 /\ text[1].t = "num"
        THEN [ok |-> TRUE, n |-> text[1].n]
        ELSE [ok |-> FALSE, n |-> 0]

(***************************************************************************)
(* Outcome of a handler: a returned value, a raised RequestError, or       *)
(* another exception; `notes` are the notifications it pushed through      *)
(* send_notification before that, in order.                                *)
(***************************************************************************)
Return(value, notes) == [kind |-> "return", value |-> value, notes |-> notes]
RequestError(code, text, notes) ==
    [kind |-> "RequestError", code |-> code, message |-> text, notes |-> notes]
Fault(name, notes) == [kind |-> name, notes |-> notes]

MethodNotFound == -32601

\* Variant: send_notification fills the id member with None.
NotificationNullId(method, params) ==
    Dict([jsonrpc |-> StrVal("2.0"), id |-> None, method |-> StrVal(method),
          params |-> params])

\* The dict send_notification builds.
Notification(method, params) ==
    Dict([jsonrpc |-> StrVal("2.0"), method |-> StrVal(method), params |-> params])

KnownMethods ==
    {"build/exit", "build/initialize", "build/initialized", "build/shutdown",
     "buildTarget/sources", "textDocument/registerForChanges",
     "textDocument/sourceKitOptions", "workspace/didChangeWatchedFiles",
     "workspace/buildTargets"}

Servers ==
    {"AbstractBuildServer", "LegacyBuildServer",
     "testBuildTargetsChanged.BuildServer", "testFileRegistration.BuildServer"}

\* A subclass of LegacyBuildServer whose handlers of textDocument/
\* sourceKitOptions and buildTarget/sources call
\* send_sourcekit_options_changed before they return a result or raise.
PushingServers == {"PushingBuildServer"}

\* LegacyBuildServer.send_sourcekit_options_changed: the notification pushed.
send_sourcekit_options_changed(uri, options) ==
    Notification("build/sourceKitOptionsChanged",
                 Dict([uri |-> uri, updatedOptions |-> Dict([options |-> options])]))

\* What the pushing handlers push and return.
PushedNotification ==
    send_sourcekit_options_changed(StrVal("file:///a.swift"),
                                   ListVal(<<StrVal("a"), StrVal("b")>>))

PushedResult == Dict([compilerArguments |-> ListVal(<<StrVal("a"), StrVal("b")>>)])

(***************************************************************************)
(* Message handling functions.                                             *)
(***************************************************************************)
exit(srv, params) == Return(None, <<>>)

\* Variant: LegacyBuildServer inherits the data of AbstractBuildServer.
InitializeDataInherited(srv) ==
    Dict([indexDatabasePath |-> StrVal("some/index/db/path"),
          indexStorePath |-> StrVal("some/index/store/path"),
          sourceKitOptionsProvider |-> BoolVal(TRUE)])

InitializeData(srv) ==
    IF srv \in {"LegacyBuildServer"} \cup PushingServers
    THEN Dict([indexDatabasePath |-> StrVal("some/index/db/path"),
               indexStorePath |-> StrVal("some/index/store/path")])
    ELSE Dict([indexDatabasePath |-> StrVal("some/index/db/path"),
               indexStorePath |-> StrVal("some/index/store/path"),
               sourceKitOptionsProvider |-> BoolVal(TRUE)])

\* Variant: the result echoes the rootUri of the request.
initializeEchoesRoot(srv, params) ==
    Return(Dict([displayName |-> StrVal("test server"),
                 version |-> StrVal("0.1"),
                 bspVersion |-> StrVal("2.0"),
                 rootUri |-> IF Has(params, "rootUri") THEN params.f["rootUri"]
                             ELSE StrVal("blah"),
                 capabilities |-> Dict([languageIds |-> ListVal(<<StrVal("a"), StrVal("b")>>)]),
                 data |-> InitializeData(srv)]),
           <<>>)

initialize(srv, params) ==
    Return(Dict([displayName |-> StrVal("test server"),
                 version |-> StrVal("0.1"),
                 bspVersion |-> StrVal("2.0"),
                 rootUri |-> StrVal("blah"),
                 capabilities |-> Dict([languageIds |-> ListVal(<<StrVal("a"), StrVal("b")>>)]),
                 data |-> InitializeData(srv)]),
           <<>>)

initialized(srv, params) == Return(None, <<>>)

DidChangeParams ==
    Dict([changes |-> ListVal(<<Dict([target |-> Dict([uri |-> StrVal("build://target/a")]),
                                      kind |-> IntVal(1),
                                      data |-> Dict([key |-> StrVal("value")])])>>)])

SourceKitOptionsChangedParams(uri) ==
    Dict([uri |-> uri,
          updatedOptions |-> Dict([options |-> ListVal(<<StrVal("a"), StrVal("b")>>),
                                   workingDirectory |-> StrVal("/some/dir")])])

register_for_changes(srv, params) ==
    IF srv = "testBuildTargetsChanged.BuildServer"
    THEN IF ~IsDict(params) THEN Fault("TypeError", <<>>)
         ELSE IF ~Has(params, "action") THEN Fault("KeyError", <<>>)
         ELSE IF params.f["action"] = StrVal("register")
         THEN Return(None, <<Notification("buildTarget/didChange", DidChangeParams)>>)
         ELSE Return(None, <<>>)
    ELSE IF srv = "testFileRegistration.BuildServer"
    THEN IF ~IsDict(params) THEN Fault("TypeError", <<>>)
         ELSE IF ~Has(params, "action") THEN Fault("KeyError", <<>>)
         ELSE IF params.f["action"] = StrVal("register")
         THEN IF ~Has(params, "uri") THEN Fault("KeyError", <<>>)
              ELSE Return(None, <<Notification("build/sourceKitOptionsChanged",
                                               SourceKitOptionsChangedParams(params.f["uri"]))>>)
         ELSE Return(None, <<>>)
    ELSE Return(None, <<>>)

textdocument_sourcekitoptions(srv, params) ==
    IF srv \in PushingServers
    THEN Return(PushedResult, <<PushedNotification>>)
    ELSE RequestError(MethodNotFound, "'textDocument/sourceKitOptions' not implemented", <<>>)

\* Variant: build/shutdown is refused until a build/initialize was handled.
shutdownAfterInitialize(srv, params) ==
    IF \E k \in 1..Len(received) :
          Has(received[k], "method") /\ received[k].f["method"] = StrVal("build/initialize")
    THEN Return(EmptyDict, <<>>)
    ELSE RequestError(-32002, "server not initialized", <<>>)

shutdown(srv, params) == Return(EmptyDict, <<>>)

buildtarget_sources(srv, params) ==
    RequestError(MethodNotFound, "'buildTarget/sources' not implemented",
                 IF srv \in PushingServers THEN <<PushedNotification>> ELSE <<>>)

workspace_did_change_watched_files(srv, params) == Return(None, <<>>)

\* Variant: the text of the fallback for a method without branch.
workspace_build_targetsUnhandledText(srv, params) ==
    RequestError(MethodNotFound, "Unhandled method 'workspace/buildTargets'", <<>>)

workspace_build_targets(srv, params) ==
    RequestError(MethodNotFound, "'workspace/buildTargets' not implemented", <<>>)

\* str(message["method"])
PyStr(v) == IF v.ty = "str" THEN v.s ELSE "<not a string>"

\* Variant: an unknown method is answered with -32600 (invalid request).
OtherMethodInvalidRequest(msg, method) ==
    IF Has(msg, "id")
    THEN RequestError(-32600, "Method not found: " \o method, <<>>)
    ELSE Return(None, <<>>)

\* Variant: the `"id" in message` test is missing.
OtherMethodAlwaysRaises(msg, method) ==
    RequestError(MethodNotFound, "Method not found: " \o method, <<>>)

\* The end of handle_message, reached when no branch matched the method.
OtherMethod(msg, method) ==
    IF Has(msg, "id")
    THEN RequestError(MethodNotFound, "Method not found: " \o method, <<>>)
    ELSE Return(None, <<>>)

\* Variant: params = message.get("params", {}).
handle_messageParamsOptional(srv, msg) ==
    IF ~IsDict(msg) THEN Fault("TypeError", <<>>)
    ELSE IF ~Has(msg, "method") THEN Fault("KeyError", <<>>)
    ELSE LET method == PyStr(msg.f["method"])
             params == IF Has(msg, "params") THEN msg.f["params"] ELSE EmptyDict
         IN  CASE method = "build/exit" -> exit(srv, params)
               [] method = "build/initialize" -> initialize(srv, params)
               [] method = "build/initialized" -> initialized(srv, params)
               [] method = "build/shutdown" -> shutdown(srv, params)
               [] method = "buildTarget/sources" -> buildtarget_sources(srv, params)
               [] method = "textDocument/registerForChanges" -> register_for_changes(srv, params)
               [] method = "textDocument/sourceKitOptions" -> textdocument_sourcekitoptions(srv, params)
               [] method = "workspace/didChangeWatchedFiles" -> workspace_did_change_watched_files(srv, params)
               [] method = "workspace/buildTargets" -> workspace_build_targets(srv, params)
               [] OTHER -> OtherMethod(msg, method)

\* Variant: a message without method is ignored.
handle_messageIgnoresMethodless(srv, msg) ==
    IF ~IsDict(msg) THEN Fault("TypeError", <<>>)
    ELSE IF ~Has(msg, "method") THEN Return(None, <<>>)
    ELSE IF ~Has(msg, "params") THEN Fault("KeyError", <<>>)
    ELSE LET method == PyStr(msg.f["method"])
             params == msg.f["params"]
         IN  CASE method = "build/exit" -> exit(srv, params)
               [] method = "build/initialize" -> initialize(srv, params)
               [] method = "build/initialized" -> initialized(srv, params)
               [] method = "build/shutdown" -> shutdown(srv, params)
               [] method = "buildTarget/sources" -> buildtarget_sources(srv, params)
               [] method = "textDocument/registerForChanges" -> register_for_changes(srv, params)
               [] method = "textDocument/sourceKitOptions" -> textdocument_sourcekitoptions(srv, params)
               [] method = "workspace/didChangeWatchedFiles" -> workspace_did_change_watched_files(srv, params)
               [] method = "workspace/buildTargets" -> workspace_build_targets(srv, params)
               [] OTHER -> OtherMethod(msg, method)

handle_message(srv, msg) ==
    IF ~IsDict(msg) THEN Fault("TypeError", <<>>)
    ELSE IF ~Has(msg, "method") THEN Fault("KeyError", <<>>)
    ELSE IF ~Has(msg, "params") THEN Fault("KeyError", <<>>)
    ELSE LET method == PyStr(msg.f["method"])
             params == msg.f["params"]
         IN  CASE method = "build/exit" -> exit(srv, params)
               [] method = "build/initialize" -> initialize(srv, params)
               [] method = "build/initialized" -> initialized(srv, params)
               [] method = "build/shutdown" -> shutdown(srv, params)
               [] method = "buildTarget/sources" -> buildtarget_sources(srv, params)
               [] method = "textDocument/registerForChanges" -> register_for_changes(srv, params)
               [] method = "textDocument/sourceKitOptions" -> textdocument_sourcekitoptions(srv, params)
               [] method = "workspace/didChangeWatchedFiles" -> workspace_did_change_watched_files(srv, params)
               [] method = "workspace/buildTargets" -> workspace_build_targets(srv, params)
               [] OTHER -> OtherMethod(msg, method)

(***************************************************************************)
(* run(): what it writes for one message.                                  *)
(***************************************************************************)
\* Variant: `if result:`, the truth value of the result.
HasResultTruthy(result) == result # None /\ result # EmptyDict

\* `result is not None`
HasResult(result) == result # None

\* Variant: the id is passed through str().
ResponseMessageStrId(msg, result) ==
    Dict([jsonrpc |-> StrVal("2.0"),
          id |-> IF msg.f["id"].ty = "int" THEN StrVal("1") ELSE msg.f["id"],
          result |-> result])

\* response_message
ResponseMessage(msg, result) ==
    Dict([jsonrpc |-> StrVal("2.0"), id |-> msg.f["id"], result |-> result])

\* Variant: every RequestError is reported as -32603 (internal error).
ErrorResponseMessageInternal(msg, e) ==
    Dict([jsonrpc |-> StrVal("2.0"), id |-> msg.f["id"],
          error |-> Dict([code |-> IntVal(-32603), message |-> StrVal(e.message)])])

\* Variant: the error Response also carries "result": None.
ErrorResponseMessageNullResult(msg, e) ==
    Dict([jsonrpc |-> StrVal("2.0"), id |-> msg.f["id"], result |-> None,
          error |-> Dict([code |-> IntVal(e.code), message |-> StrVal(e.message)])])

\* error_response_message
ErrorResponseMessage(msg, e) ==
    Dict([jsonrpc |-> StrVal("2.0"), id |-> msg.f["id"],
          error |-> Dict([code |-> IntVal(e.code), message |-> StrVal(e.message)])])

\* Variant: the length announced counts a newline after the payload.
FrameCountsNewline(msg) ==
    LET message_str == JsonDumps(msg)
    IN  <<TokCL, TokNum(Len(message_str) + 1), TokCR, TokLF, TokCR, TokLF>> \o message_str

\* The bytes send_raw_message writes for one message.
Frame(msg) ==
    LET message_str == JsonDumps(msg)
    IN  <<TokCL, TokNum(Len(message_str)), TokCR, TokLF, TokCR, TokLF>> \o message_str

\* Variant: a RequestError raised for a message without id is dropped and
\* the loop goes on.
ReplyDropsIdlessError(srv, msg) ==
    LET o == handle_message(srv, msg)
    IN  IF o.kind = "return"
        THEN IF ~HasResult(o.value) THEN [out |-> o.notes, exc |-> ""]
             ELSE IF ~Has(msg, "id") THEN [out |-> o.notes, exc |-> "KeyError"]
             ELSE [out |-> Append(o.notes, ResponseMessage(msg, o.value)), exc |-> ""]
        ELSE IF o.kind = "RequestError"
        THEN IF ~Has(msg, "id") THEN [out |-> o.notes, exc |-> ""]
             ELSE [out |-> Append(o.notes, ErrorResponseMessage(msg, o)), exc |-> ""]
        ELSE [out |-> o.notes, exc |-> o.kind]

\* Variant: what the handler pushed is written after the Response.
ReplyResponseFirst(srv, msg) ==
    LET o == handle_message(srv, msg)
    IN  IF o.kind = "return"
        THEN IF ~HasResult(o.value) THEN [out |-> o.notes, exc |-> ""]
             ELSE IF ~Has(msg, "id") THEN [out |-> o.notes, exc |-> "KeyError"]
             ELSE [out |-> <<ResponseMessage(msg, o.value)>> \o o.notes, exc |-> ""]
        ELSE IF o.kind = "RequestError"
        THEN IF ~Has(msg, "id") THEN [out |-> o.notes, exc |-> "KeyError"]
             ELSE [out |-> <<ErrorResponseMessage(msg, o)>> \o o.notes, exc |-> ""]
        ELSE [out |-> o.notes, exc |-> o.kind]

\* The try statement of run() for one message: the messages written, in
\* order, and the exception that leaves run(), "" when the loop goes on.
Reply(srv, msg) ==
    LET o == handle_message(srv, msg)
    IN  IF o.kind = "return"
        THEN IF ~HasResult(o.value) THEN [out |-> o.notes, exc |-> ""]
             ELSE IF ~Has(msg, "id") THEN [out |-> o.notes, exc |-> "KeyError"]
             ELSE [out |-> Append(o.notes, ResponseMessage(msg, o.value)), exc |-> ""]
        ELSE IF o.kind = "RequestError"
        THEN IF ~Has(msg, "id") THEN [out |-> o.notes, exc |-> "KeyError"]
             ELSE [out |-> Append(o.notes, ErrorResponseMessage(msg, o)), exc |-> ""]
        ELSE [out |-> o.notes, exc |-> o.kind]

RECURSIVE Frames(_)
Frames(msgs) ==
    IF msgs = <<>> THEN <<>> ELSE Frame(Head(msgs)) \o Frames(Tail(msgs))

\* Variant: what is written is put in front of what the stream holds.
WriteAhead(out, msgs) == Frames(msgs) \o out

\* sys.stdout.buffer.write / flush: the stream after the messages were written.
Write(out, msgs) == out \o Frames(msgs)

(***************************************************************************)
(* The standalone script Tests/INPUTS/                                     *)
(* BuildServerBuildSystemTests.testBuildTargetsChanged/server.py: the      *)
(* same receive steps, and one if/elif chain instead of handle_message.    *)
(***************************************************************************)
ScriptServers ==
    {"Tests.testBuildTargetsChanged.script", "Sources.testBuildTargets.script",
     "Tests.testBuildTargets.script", "Sources.testBuildTargetOutputs.script"}

ScriptInitializeResult ==
    Dict([displayName |-> StrVal("test server"),
          version |-> StrVal("0.1"),
          bspVersion |-> StrVal("2.0"),
          rootUri |-> StrVal("blah"),
          capabilities |-> Dict([languageIds |-> ListVal(<<StrVal("a"), StrVal("b")>>)]),
          data |-> Dict([indexStorePath |-> StrVal("some/index/store/path")])])

ScriptResponse(msg, result) ==
    Dict([jsonrpc |-> StrVal("2.0"), id |-> msg.f["id"], result |-> result])

ScriptNotification ==
    Dict([jsonrpc |-> StrVal("2.0"), method |-> StrVal("buildTarget/didChange"),
          params |-> DidChangeParams])

ScriptUnhandled(msg, method) ==
    Dict([jsonrpc |-> StrVal("2.0"), id |-> msg.f["id"],
          error |-> Dict([code |-> IntVal(-32600),
                          message |-> StrVal("unhandled method " \o method)])])

\* The body of the script's loop after the receive steps: the messages it
\* sends, in order, the exception that leaves the loop ("" when none does)
\* and whether the loop is left by `break`.
ScriptReply(msg) ==
    LET raise(e) == [out |-> <<>>, exc |-> e, halt |-> FALSE]
        go(out) == [out |-> out, exc |-> "", halt |-> FALSE]
    IN  IF ~IsDict(msg) THEN raise("TypeError")
        ELSE IF ~Has(msg, "method") THEN raise("KeyError")
        ELSE LET method == PyStr(msg.f["method"])
             IN  CASE method = "build/initialize" ->
                        IF ~Has(msg, "id") THEN raise("KeyError")
                        ELSE go(<<ScriptResponse(msg, ScriptInitializeResult)>>)
                   [] method = "build/initialized" -> go(<<>>)
                   [] method = "build/shutdown" ->
                        IF ~Has(msg, "id") THEN raise("KeyError")
                        ELSE go(<<ScriptResponse(msg, None)>>)
                   [] method = "build/exit" -> [out |-> <<>>, exc |-> "", halt |-> TRUE]
                   [] method = "textDocument/registerForChanges" ->
                        IF ~Has(msg, "id") THEN raise("KeyError")
                        ELSE IF ~Has(msg, "params") THEN raise("KeyError")
                        ELSE IF ~IsDict(msg.f["params"]) THEN raise("TypeError")
                        ELSE IF ~Has(msg.f["params"], "action") THEN raise("KeyError")
                        ELSE IF msg.f["params"].f["action"] = StrVal("register")
                        THEN go(<<ScriptResponse(msg, None), ScriptNotification>>)
                        ELSE go(<<ScriptResponse(msg, None)>>)
                   [] OTHER ->
                        IF Has(msg, "id") THEN go(<<ScriptUnhandled(msg, method)>>)
                        ELSE go(<<>>)

(***************************************************************************)
(* The standalone scripts BuildServerBuildSystemTests.testBuildTargets/     *)
(* server.py (under Sources/SKTestSupport/INPUTS and under Tests/INPUTS)    *)
(* and Sources/SKTestSupport/INPUTS/                                        *)
(* BuildServerBuildSystemTests.testBuildTargetOutputs/server.py.            *)
(***************************************************************************)
TargetsScripts == {"Sources.testBuildTargets.script", "Tests.testBuildTargets.script"}

StandaloneLanguageIds(srv) ==
    IF srv = "Sources.testBuildTargets.script"
    THEN ListVal(<<StrVal("objective-c"), StrVal("swift")>>)
    ELSE ListVal(<<StrVal("a"), StrVal("b")>>)

StandaloneInitializeResult(srv) ==
    Dict([displayName |-> StrVal("test server"),
          version |-> StrVal("0.1"),
          bspVersion |-> StrVal("2.0"),
          rootUri |-> StrVal("blah"),
          capabilities |-> Dict([languageIds |-> StandaloneLanguageIds(srv)]),
          data |-> Dict([indexStorePath |-> StrVal("some/index/store/path")])])

\* The uri of a target: the script under Sources prefixes "target:".
TargetUri(srv, name) ==
    IF srv = "Sources.testBuildTargets.script" THEN "target:" \o name ELSE name

TargetId(srv, name) == Dict([uri |-> StrVal(TargetUri(srv, name))])

BuildTarget(srv, name, displayName, canTest, dependencies) ==
    Dict([id |-> TargetId(srv, name),
          displayName |-> StrVal(displayName),
          baseDirectory |-> StrVal("file:///some/dir"),
          tags |-> ListVal(<<StrVal("library"), StrVal("test")>>),
          capabilities |-> Dict([canCompile |-> BoolVal(TRUE),
                                 canTest |-> BoolVal(canTest),
                                 canRun |-> BoolVal(FALSE)]),
          languageIds |-> StandaloneLanguageIds(srv),
          dependencies |-> ListVal(dependencies)])

FirstTarget(srv) == BuildTarget(srv, "first_target", "First Target", TRUE, <<>>)

SecondTarget(srv) ==
    BuildTarget(srv, "second_target", "Second Target", FALSE,
                <<TargetId(srv, "first_target")>>)

\* Variant: the dependent target is listed first.
BuildTargetsResultDependentFirst(srv) ==
    Dict([targets |-> ListVal(<<SecondTarget(srv), FirstTarget(srv)>>)])

\* The result of workspace/buildTargets.
BuildTargetsResult(srv) ==
    Dict([targets |-> ListVal(<<FirstTarget(srv), SecondTarget(srv)>>)])

\* The result of buildTarget/outputPaths.
OutputPathsResult ==
    Dict([items |-> ListVal(<<
        Dict([target |-> Dict([uri |-> StrVal("build://target/a")]),
              outputPaths |-> ListVal(<<StrVal("file:///path/to/a/file"),
                                        StrVal("file:///path/to/a/file2")>>)])>>)])

UnhandledMethodCode == 123

StandaloneUnhandled(msg, method) ==
    Dict([jsonrpc |-> StrVal("2.0"), id |-> msg.f["id"],
          error |-> Dict([code |-> IntVal(UnhandledMethodCode),
                          message |-> StrVal("unhandled method " \o method)])])

\* The body of the loop of one of these scripts after the receive steps.
\* `response` is a non-empty dict or None, so `if response:` writes it
\* whenever a branch has set it.
StandaloneReply(srv, msg) ==
    LET raise(e) == [out |-> <<>>, exc |-> e, halt |-> FALSE]
        go(out) == [out |-> out, exc |-> "", halt |-> FALSE]
        respond(result) ==
            IF ~Has(msg, "id") THEN raise("KeyError")
            ELSE go(<<ScriptResponse(msg, result)>>)
    IN  IF ~IsDict(msg) THEN raise("TypeError")
        ELSE IF ~Has(msg, "method") THEN raise("KeyError")
        ELSE LET method == PyStr(msg.f["method"])
             IN  CASE method = "build/initialize" -> respond(StandaloneInitializeResult(srv))
                   [] method = "build/initialized" -> go(<<>>)
                   [] method = "build/shutdown" -> respond(None)
                   [] method = "build/exit" -> [out |-> <<>>, exc |-> "", halt |-> TRUE]
                   [] method = "workspace/buildTargets" /\ srv \in TargetsScripts ->
                        respond(BuildTargetsResult(srv))
                   [] method = "buildTarget/outputPaths" /\ srv \notin TargetsScripts ->
                        respond(OutputPathsResult)
                   [] OTHER ->
                        IF Has(msg, "id") THEN go(<<StandaloneUnhandled(msg, method)>>)
                        ELSE go(<<>>)

\* The methods the if/elif chain of a script has a branch for.
HandledByScript(srv) ==
    {"build/initialize", "build/initialized", "build/shutdown", "build/exit"}
    \cup (IF srv \in TargetsScripts THEN {"workspace/buildTargets"}
          ELSE IF srv = "Sources.testBuildTargetOutputs.script"
          THEN {"buildTarget/outputPaths"}
          ELSE {"textDocument/registerForChanges"})

\* What the running program does with one received message.
Step(srv, msg) ==
    IF srv = "Tests.testBuildTargetsChanged.script"
    THEN ScriptReply(msg)
    ELSE IF srv \in ScriptServers
    THEN StandaloneReply(srv, msg)
    ELSE LET r == Reply(srv, msg) IN [out |-> r.out, exc |-> r.exc, halt |-> FALSE]

\* A write to a stdout the peer has closed: send_raw_message lets the
\* BrokenPipeError through, and run() catches RequestError only. The Tests
\* testBuildTargetsChanged script's send() turns it into SystemExit(0), the
\* scripts under Sources catch IOError and break, and the Tests
\* testBuildTargets script does not catch it.
WriteFailure(srv) ==
    IF srv \in ScriptServers \ {"Tests.testBuildTargets.script"}
    THEN [pc |-> "returned", exc |-> ""]
    ELSE [pc |-> "raised", exc |-> "BrokenPipeError"]

(***************************************************************************)
(* The peer (SourceKit-LSP): it writes frames to the server's stdin and    *)
(* may close it.                                                           *)
(***************************************************************************)
PeerMethods == KnownMethods \cup {"buildTarget/outputPaths"}

\* Ids are integers or strings; string ids are tried on these methods.
StringIdMethods ==
    {"build/initialize", "build/shutdown", "buildTarget/sources", "buildTarget/outputPaths"}

PeerIds(method) ==
    IF method \in peer.stringIds THEN {IntVal(1), StrVal("a")} ELSE {IntVal(1)}

\* One method of each behaviour of handle_message: a handler that returns
\* None, one that returns a dict, one that raises RequestError, the override
\* point, and a method without branch.
CoreMethods ==
    {"build/exit", "build/initialize", "build/initialized", "build/shutdown",
     "buildTarget/sources", "textDocument/registerForChanges", "buildTarget/outputPaths"}

\* Only the servers that override register_for_changes read the params.
\* A build/initialize carries the workspace root.
PeerParams(srv, method) ==
    IF method = "textDocument/registerForChanges"
    THEN {Dict([uri |-> StrVal("file:///a.swift"), action |-> StrVal(a)]) :
            a \in IF srv \in {"AbstractBuildServer", "LegacyBuildServer"}
                  THEN {"register"}
                  ELSE {"register", "unregister"}}
    ELSE IF method = "build/initialize"
    THEN {Dict([rootUri |-> StrVal(u)]) : u \in peer.roots}
    ELSE {EmptyDict}

PeerRequest(id, method, params) ==
    Dict([jsonrpc |-> StrVal("2.0"), id |-> id, method |-> StrVal(method), params |-> params])

PeerNotification(method, params) ==
    Dict([jsonrpc |-> StrVal("2.0"), method |-> StrVal(method), params |-> params])

\* Messages with a method and params: Requests (with id) and Notifications.
PeerMessages(srv) ==
    UNION {{PeerRequest(id, m, p) : id \in PeerIds(m), p \in PeerParams(srv, m)}
           \cup {PeerNotification(m, p) : p \in PeerParams(srv, m)} : m \in peer.methods}

\* Messages that lack params or method (a Response of the peer has neither).
PeerPartialMessages ==
    {Dict([jsonrpc |-> StrVal("2.0"), id |-> IntVal(1), method |-> StrVal(m)]) :
        m \in {"build/initialize", "buildTarget/outputPaths"}}
    \cup {Dict([jsonrpc |-> StrVal("2.0"), method |-> StrVal(m)]) :
        m \in {"build/initialize", "buildTarget/outputPaths"}}
    \cup {Dict([jsonrpc |-> StrVal("2.0"), id |-> IntVal(1), result |-> None])}

\* Content-Length: <N>\r\n\r\n<payload>
WellFramed(msg) == Frame(msg)

\* Frames that break the framing, each around the same payload.
BadFrames ==
    LET payload == JsonDumps(PeerRequest(IntVal(1), "build/initialize", EmptyDict))
        n == Len(payload)
    IN  { <<TokText("Content-Type:"), TokNum(n), TokCR, TokLF, TokCR, TokLF>> \o payload,
          <<TokCL, TokText("abc"), TokCR, TokLF, TokCR, TokLF>> \o payload,
          <<TokCL, TokCR, TokLF, TokCR, TokLF>> \o payload,
          <<TokCL, TokNum(n), TokCR, TokLF, TokCR, TokLF>> \o SubSeq(payload, 1, n - 1),
          \* the payload was to end with a newline, which never arrives
          <<TokCL, TokNum(n + 1), TokCR, TokLF, TokCR, TokLF>> \o payload }

\* Frames whose header announces one of the lengths `peer.lengths`, whatever
\* the payload's length is.
AnnouncedLengthFrames ==
    LET payload == JsonDumps(PeerRequest(IntVal(1), "build/shutdown", EmptyDict))
    IN  {<<TokCL, TokNum(n), TokCR, TokLF, TokCR, TokLF>> \o payload : n \in peer.lengths}

\* Messages without a method member: Responses of the peer (result or
\* error), a message with params only, and the empty object.
PeerMethodlessMessages ==
    {Dict([jsonrpc |-> StrVal("2.0"), id |-> IntVal(1), result |-> EmptyDict]),
     Dict([jsonrpc |-> StrVal("2.0"), id |-> StrVal("a"),
           error |-> Dict([code |-> IntVal(MethodNotFound), message |-> StrVal("no")])]),
     Dict([jsonrpc |-> StrVal("2.0"), params |-> EmptyDict]),
     EmptyDict}

PeerFrames(srv) ==
    AnnouncedLengthFrames \cup
    (IF peer.methodless THEN {WellFramed(m) : m \in PeerMethodlessMessages} ELSE {}) \cup
    IF peer.faulty
    THEN {WellFramed(m) : m \in PeerMessages(srv) \cup PeerPartialMessages} \cup BadFrames
    ELSE {WellFramed(m) : m \in PeerMessages(srv)}

PeerWrite ==
    /\ ~stdinClosed
    /\ nframes < peer.frames
    /\ \E fr \in PeerFrames(server) :
          /\ stdin' = stdin \o fr
          /\ written' = Append(written, fr)
    /\ nframes' = nframes + 1
    /\ UNCHANGED <<server, stdinClosed, stdout, pc, length, message, exc, received, sent,
                   stdoutClosed, peer, chars, wire, flushed>>

PeerClose ==
    /\ ~stdinClosed
    /\ stdinClosed' = TRUE
    /\ UNCHANGED <<server, stdin, stdout, pc, length, message, exc, received, sent, nframes,
                   written, stdoutClosed, peer, chars, wire, flushed>>

\* The peer closes its end of the server's stdout.
PeerCloseStdout ==
    /\ ~stdoutClosed
    /\ stdoutClosed' = TRUE
    /\ UNCHANGED <<server, stdin, stdinClosed, stdout, pc, length, message, exc, received,
                   sent, nframes, written, peer, chars, wire, flushed>>

(***************************************************************************)
(* AbstractBuildServer.run                                                 *)
(***************************************************************************)
\* Variant: end-of-stream is tested as `line is None`, which readline()
\* never returns.
EndOfStreamNever(line) == FALSE

\* `len(line) == 0`
EndOfStream(line) == Len(line) = 0

\* line = sys.stdin.readline() ... length = int(...)
ReadHeader ==
    /\ pc = "ReadHeader"
    /\ LET r == ReadLine(stdin, stdinClosed)
       IN  /\ r.ready
           /\ stdin' = r.rest
           /\ IF EndOfStream(r.data)
              THEN pc' = "returned" /\ UNCHANGED <<length, exc>>
              ELSE IF ~StartsWithContentLength(r.data)
              THEN pc' = "raised" /\ exc' = "AssertionError" /\ UNCHANGED length
              ELSE IF ~ParseInt(r.data).ok
              THEN pc' = "raised" /\ exc' = "ValueError" /\ UNCHANGED length
              ELSE pc' = "ReadSeparator" /\ length' = ParseInt(r.data).n /\ UNCHANGED exc
    /\ UNCHANGED <<server, stdinClosed, stdout, message, received, sent, nframes,
                   written, stdoutClosed, peer, chars, wire, flushed>>

\* sys.stdin.readline()
ReadSeparator ==
    /\ pc = "ReadSeparator"
    /\ LET r == ReadLine(stdin, stdinClosed)
       IN  r.ready /\ stdin' = r.rest
    /\ pc' = "ReadBody"
    /\ UNCHANGED <<server, stdinClosed, stdout, length, message, exc, received, sent, nframes,
                   written, stdoutClosed, peer, chars, wire, flushed>>

\* message = json.loads(sys.stdin.read(length))
ReadBody ==
    /\ pc = "ReadBody"
    /\ LET r == Read(stdin, stdinClosed, length)
           j == JsonLoads(r.data)
       IN  /\ r.ready
           /\ stdin' = r.rest
           /\ IF j.ok
              THEN pc' = "Dispatch" /\ message' = j.val /\ UNCHANGED exc
              ELSE pc' = "raised" /\ exc' = "JSONDecodeError" /\ UNCHANGED message
    /\ UNCHANGED <<server, stdinClosed, stdout, length, received, sent, nframes,
                   written, stdoutClosed, peer, chars, wire, flushed>>

\* Variant: send_raw_message leaves what it wrote in the buffer of stdout.
FlushNever(out) == 0

\* sys.stdout.flush() at the end of send_raw_message: every unit written so
\* far has reached the peer.
Flush(out) == Len(out)

\* The try statement: handle_message, then the Response or error Response.
\* The first write to a closed stdout fails, and nothing is written.
Dispatch ==
    /\ pc = "Dispatch"
    /\ LET r == Step(server, message)
           k == Len(received) + 1
       IN  /\ received' = Append(received, message)
           /\ IF stdoutClosed /\ r.out # <<>>
              THEN /\ UNCHANGED <<stdout, sent, flushed>>
                   /\ exc' = WriteFailure(server).exc
                   /\ pc' = WriteFailure(server).pc
              ELSE /\ stdout' = Write(stdout, r.out)
                   /\ flushed' = Flush(stdout')
                   /\ sent' = sent \o [i \in 1..Len(r.out) |-> [msg |-> r.out[i], for |-> k]]
                   /\ exc' = r.exc
                   /\ pc' = IF r.exc # "" THEN "raised"
                            ELSE IF r.halt THEN "returned"
                            ELSE "ReadHeader"
    /\ UNCHANGED <<server, stdin, stdinClosed, length, message, nframes,
                   written, stdoutClosed, peer, chars, wire>>

Init ==
    /\ server = "AbstractBuildServer"
    /\ stdin = <<>>
    /\ stdinClosed = FALSE
    /\ stdout = <<>>
    /\ pc = "ReadHeader"
    /\ length = 0
    /\ message = None
    /\ exc = ""
    /\ received = <<>>
    /\ sent = <<>>
    /\ nframes = 0
    /\ written = <<>>
    /\ stdoutClosed = FALSE
    /\ peer = [methods |-> CoreMethods,
               stringIds |-> {"build/shutdown", "buildTarget/outputPaths"},
               roots |-> {"file:///a"}, faulty |-> TRUE, lengths |-> {},
               methodless |-> FALSE, frames |-> MaxFrames]
    /\ chars = <<>>
    /\ wire = <<>>
    /\ flushed = 0

Next ==
    \/ PeerWrite
    \/ PeerClose
    \/ ReadHeader
    \/ ReadSeparator
    \/ ReadBody
    \/ Dispatch

Spec == Init /\ [][Next]_vars

\* A run of one of the programs `srvs` against a peer that does `p`.
InitWith(srvs, p) ==
    /\ server \in srvs
    /\ stdin = <<>>
    /\ stdinClosed = FALSE
    /\ stdout = <<>>
    /\ pc = "ReadHeader"
    /\ length = 0
    /\ message = None
    /\ exc = ""
    /\ received = <<>>
    /\ sent = <<>>
    /\ nframes = 0
    /\ written = <<>>
    /\ stdoutClosed = FALSE
    /\ peer = p
    /\ chars = <<>>
    /\ wire = <<>>
    /\ flushed = 0

\* AbstractBuildServer or LegacyBuildServer against a peer that initializes
\* the server more than once, for one workspace root or another.
InitInitialize ==
    InitWith({"AbstractBuildServer", "LegacyBuildServer"},
             [methods |-> {"build/initialize", "build/initialized"},
              stringIds |-> StringIdMethods,
              roots |-> {"file:///a", "file:///b"}, faulty |-> FALSE, lengths |-> {}, methodless |-> FALSE,
              frames |-> MaxFrames + 1])

SpecInitialize == InitInitialize /\ [][Next]_vars

\* The two testBuildTargetsChanged servers: the subclass of
\* AbstractBuildServer and the standalone script.
InitTargetsChanged ==
    InitWith({"testBuildTargetsChanged.BuildServer", "Tests.testBuildTargetsChanged.script"},
             [methods |-> {"textDocument/registerForChanges", "build/shutdown",
                           "build/exit", "buildTarget/outputPaths"},
              stringIds |-> StringIdMethods,
              roots |-> {}, faulty |-> FALSE, lengths |-> {}, methodless |-> FALSE, frames |-> MaxFrames])

SpecTargetsChanged == InitTargetsChanged /\ [][Next]_vars

\* AbstractBuildServer against a peer that may close the server's stdout.
InitPipe ==
    InitWith({"AbstractBuildServer"},
             [methods |-> {"build/shutdown", "build/initialized", "buildTarget/sources"},
              stringIds |-> StringIdMethods,
              roots |-> {}, faulty |-> FALSE, lengths |-> {}, methodless |-> FALSE, frames |-> MaxFrames])

NextPipe == Next \/ PeerCloseStdout

SpecPipe == InitPipe /\ [][NextPipe]_vars

\* The methods whose handler AbstractBuildServer leaves unimplemented.
NotImplementedMethods ==
    {"buildTarget/sources", "workspace/buildTargets", "textDocument/sourceKitOptions"}

\* Any of the four servers built on AbstractBuildServer, none of which
\* overrides these handlers, against a peer that sends these methods.
InitNotImplemented ==
    InitWith(Servers,
             [methods |-> NotImplementedMethods,
              stringIds |-> {"workspace/buildTargets"},
              roots |-> {}, faulty |-> FALSE, lengths |-> {}, methodless |-> FALSE, frames |-> MaxFrames])

SpecNotImplemented == InitNotImplemented /\ [][Next]_vars

\* The standalone scripts against a peer that asks for the build targets,
\* for output paths, and for a method none of them has a branch for.
InitScripts ==
    InitWith(ScriptServers,
             [methods |-> {"workspace/buildTargets", "buildTarget/outputPaths",
                           "build/shutdown", "textDocument/sourceKitOptions"},
              stringIds |-> {"workspace/buildTargets"},
              roots |-> {}, faulty |-> FALSE, lengths |-> {}, methodless |-> FALSE, frames |-> MaxFrames])

SpecScripts == InitScripts /\ [][Next]_vars

\* AbstractBuildServer against a peer whose headers may announce a length
\* of zero or a negative length.
InitLengths ==
    InitWith({"AbstractBuildServer"},
             [methods |-> {"build/shutdown"},
              stringIds |-> {"build/shutdown"},
              roots |-> {}, faulty |-> FALSE, lengths |-> {-1, 0}, methodless |-> FALSE, frames |-> MaxFrames])

SpecLengths == InitLengths /\ [][Next]_vars

\* AbstractBuildServer or LegacyBuildServer against a peer that sends the
\* lifecycle messages and workspace/buildTargets in any order, repeatedly.
InitLifecycle ==
    InitWith({"AbstractBuildServer", "LegacyBuildServer"},
             [methods |-> {"build/initialize", "build/shutdown", "workspace/buildTargets"},
              stringIds |-> {},
              roots |-> {"file:///a"}, faulty |-> FALSE, lengths |-> {}, methodless |-> FALSE,
              frames |-> MaxFrames + 1])

SpecLifecycle == InitLifecycle /\ [][Next]_vars

\* The pushing subclass against a peer that sends the two methods whose
\* handlers push, and build/shutdown.
InitPushing ==
    InitWith(PushingServers,
             [methods |-> {"textDocument/sourceKitOptions", "buildTarget/sources",
                           "build/shutdown"},
              stringIds |-> {"textDocument/sourceKitOptions"},
              roots |-> {}, faulty |-> FALSE, lengths |-> {}, methodless |-> FALSE, frames |-> MaxFrames])

SpecPushing == InitPushing /\ [][Next]_vars

\* AbstractBuildServer or LegacyBuildServer against a peer that also sends
\* messages without a method.
InitMethodless ==
    InitWith({"AbstractBuildServer", "LegacyBuildServer"},
             [methods |-> {"build/shutdown"},
              stringIds |-> {},
              roots |-> {}, faulty |-> FALSE, lengths |-> {}, methodless |-> TRUE,
              frames |-> MaxFrames])

SpecMethodless == InitMethodless /\ [][Next]_vars

(***************************************************************************)
(* send_raw_message at the level of characters and bytes, for a message    *)
(* that echoes a str of the peer (an id): json.dumps, the f-string with    *)
(* len(message_str), and encode("utf-8").  Characters are code points.     *)
(***************************************************************************)
\* LF, '"', 'a', e-acute, the euro sign and an emoji outside the BMP.
CodePoints == {10, 34, 97, 233, 8364, 128512}

Texts == UNION {[1..n -> CodePoints] : n \in 0..MaxTextLen}

\* One lower-case hexadecimal digit, and "%04x".
HexDigit(d) == IF d < 10 THEN 48 + d ELSE 87 + d
Hex4(n) ==
    <<HexDigit(n \div 4096), HexDigit((n \div 256) % 16),
      HexDigit((n \div 16) % 16), HexDigit(n % 16)>>

\* Variant: json.dumps(message, ensure_ascii=False).
EscapeCharRaw(c) ==
    IF c = 34 THEN <<92, 34>>
    ELSE IF c = 92 THEN <<92, 92>>
    ELSE IF c = 10 THEN <<92, 110>>
    ELSE IF c < 32 THEN <<92, 117>> \o Hex4(c)
    ELSE <<c>>

\* json.dumps of one character of a str (ensure_ascii is True): '"', '\'
\* and control characters are escaped, a character above ASCII becomes
\* \uXXXX, one outside the BMP a surrogate pair of two \uXXXX.
EscapeChar(c) ==
    IF c = 34 THEN <<92, 34>>
    ELSE IF c = 92 THEN <<92, 92>>
    ELSE IF c = 10 THEN <<92, 110>>
    ELSE IF c < 32 THEN <<92, 117>> \o Hex4(c)
    ELSE IF c < 128 THEN <<c>>
    ELSE IF c < 65536 THEN <<92, 117>> \o Hex4(c)
    ELSE <<92, 117>> \o Hex4(55296 + ((c - 65536) \div 1024))
            \o <<92, 117>> \o Hex4(56320 + ((c - 65536) % 1024))

RECURSIVE EscapeChars(_)
EscapeChars(s) ==
    IF s = <<>> THEN <<>> ELSE EscapeChar(Head(s)) \o EscapeChars(Tail(s))

\* json.dumps({"id": s})
DumpsIdMessage(s) ==
    <<123, 34, 105, 100, 34, 58, 32, 34>> \o EscapeChars(s) \o <<34, 125>>

\* str(n), n >= 0
RECURSIVE Decimal(_)
Decimal(n) == IF n < 10 THEN <<48 + n>> ELSE Decimal(n \div 10) \o <<48 + (n % 10)>>

\* "Content-Length: "
ContentLengthChars ==
    <<67, 111, 110, 116, 101, 110, 116, 45, 76, 101, 110, 103, 116, 104, 58, 32>>

\* encode("utf-8") of one character
Utf8(c) ==
    IF c < 128 THEN <<c>>
    ELSE IF c < 2048 THEN <<192 + (c \div 64), 128 + (c % 64)>>
    ELSE IF c < 65536
    THEN <<224 + (c \div 4096), 128 + ((c \div 64) % 64), 128 + (c % 64)>>
    ELSE <<240 + (c \div 262144), 128 + ((c \div 4096) % 64),
           128 + ((c \div 64) % 64), 128 + (c % 64)>>

RECURSIVE EncodeUtf8(_)
EncodeUtf8(s) == IF s = <<>> THEN <<>> ELSE Utf8(Head(s)) \o EncodeUtf8(Tail(s))

\* The bytes send_raw_message({"id": s}) hands to sys.stdout.buffer.write.
SendRawBytes(s) ==
    LET message_str == DumpsIdMessage(s)
    IN  EncodeUtf8(ContentLengthChars \o Decimal(Len(message_str))
                   \o <<13, 10, 13, 10>> \o message_str)

SendRawMessage ==
    /\ wire = <<>>
    /\ wire' = SendRawBytes(chars)
    /\ UNCHANGED <<server, stdin, stdinClosed, stdout, pc, length, message, exc, received,
                   sent, nframes, written, stdoutClosed, peer, chars, flushed>>

InitCodec ==
    /\ server = "AbstractBuildServer"
    /\ stdin = <<>>
    /\ stdinClosed = FALSE
    /\ stdout = <<>>
    /\ pc = "ReadHeader"
    /\ length = 0
    /\ message = None
    /\ exc = ""
    /\ received = <<>>
    /\ sent = <<>>
    /\ nframes = 0
    /\ written = <<>>
    /\ stdoutClosed = FALSE
    /\ peer = [methods |-> {}, stringIds |-> {}, roots |-> {}, faulty |-> FALSE,
               lengths |-> {}, methodless |-> FALSE,
               frames |-> 0]
    /\ chars \in Texts
    /\ wire = <<>>
    /\ flushed = 0

NextCodec == SendRawMessage

SpecCodec == InitCodec /\ [][NextCodec]_vars

(***************************************************************************)
(* Vocabulary of the properties.                                           *)
(***************************************************************************)
\* The peer's reader of the server's stdout: the frames of the wire format
\* Content-Length: <N>\r\n\r\n<N units of JSON>, decoded in order.
RECURSIVE OutboundFrames(_)
OutboundFrames(toks) ==
    IF toks = <<>> THEN <<>>
    ELSE IF /\ Len(toks) >= 6
            /\ SubSeq(toks, 1, 1) = <<TokCL>>
            /\ toks[2].t = "num"
            /\ SubSeq(toks, 3, 6) = <<TokCR, TokLF, TokCR, TokLF>>
            /\ toks[2].n >= 0
            /\ Len(toks) >= 6 + toks[2].n
            /\ JsonLoads(SubSeq(toks, 7, 6 + toks[2].n)).ok
    THEN <<JsonLoads(SubSeq(toks, 7, 6 + toks[2].n)).val>>
            \o OutboundFrames(SubSeq(toks, 7 + toks[2].n, Len(toks)))
    ELSE <<[ty |-> "unreadable"]>>

\* The messages on the outbound stream, in order.
Outbound == OutboundFrames(stdout)

\* A Request has id, method and params; a Notification has method and params
\* and no id.
IsRequest(m) == Has(m, "id") /\ Has(m, "method") /\ Has(m, "params")
IsNotification(m) == IsDict(m) /\ ~Has(m, "id") /\ Has(m, "method") /\ Has(m, "params")
MethodOf(m) == m.f["method"].s

\* An outbound message with an id is a Response.
IsResponse(m) == Has(m, "id")

\* The positions on the outbound stream of what was written while the k-th
\* dispatched message was being handled, `out` being the outbound messages.
WrittenFor(out, k) == {i \in 1..Len(sent) : i <= Len(out) /\ sent[i].for = k}
ResponsesFor(out, k) == {i \in WrittenFor(out, k) : IsResponse(out[i])}

IsSuccess(m, id, result) ==
    /\ Has(m, "result") /\ ~Has(m, "error")
    /\ m.f["id"] = id
    /\ m.f["result"] = result

IsError(m, id, code, text) ==
    /\ Has(m, "error") /\ ~Has(m, "result")
    /\ m.f["id"] = id
    /\ m.f["error"] = Dict([code |-> IntVal(code), message |-> StrVal(text)])

\* An exception left run() out of the try statement that handled the k-th
\* dispatched message: the loop did not go on to the next frame.
FramingErrors == {"AssertionError", "ValueError", "JSONDecodeError"}
AbortedOn(k) == k = Len(received) /\ pc = "raised" /\ exc \notin FramingErrors

\* s is a prefix of t
IsPrefix(s, t) == Len(s) <= Len(t) /\ SubSeq(t, 1, Len(s)) = s

\* The effect of the server on its streams and histories during one step.
ServerIdle ==
    /\ IsPrefix(stdin, stdin')
    /\ UNCHANGED <<stdout, received, sent, pc, exc>>

TypeOK ==
    /\ server \in Servers \cup ScriptServers \cup PushingServers
    /\ pc \in {"ReadHeader", "ReadSeparator", "ReadBody", "Dispatch", "returned", "raised"}
    /\ stdinClosed \in BOOLEAN
    /\ length \in Int
    /\ nframes \in 0..peer.frames
    /\ peer.methods \subseteq PeerMethods
    /\ peer.stringIds \subseteq PeerMethods
    /\ peer.faulty \in BOOLEAN
    /\ Len(written) = nframes
    /\ stdoutClosed \in BOOLEAN
    /\ flushed \in 0..Len(stdout)
    /\ peer.lengths \subseteq Int
    /\ peer.methodless \in BOOLEAN
    /\ exc \in {"", "KeyError", "TypeError", "BrokenPipeError"} \cup FramingErrors
    /\ (pc = "raised") = (exc # "")
    /\ LET out == Outbound
       IN  /\ Len(out) = Len(sent)
           /\ \A i \in 1..Len(sent) : out[i] = sent[i].msg /\ sent[i].for \in 1..Len(received)

(***************************************************************************)
(* Properties.                                                             *)
(***************************************************************************)

\* C1: every dispatched message that carries an id (with method and params,
\* whatever the method) has exactly one Response on the outbound stream
\* once its handling is over.
C1_EveryIdGetsOneResponse ==
    LET out == Outbound IN
    \A k \in 1..Len(received) :
        IsRequest(received[k]) => Cardinality(ResponsesFor(out, k)) = 1

\* C2: every Response on the outbound stream carries the id of the message
\* that was being handled when it was written, unchanged.
C2_ResponseIdEchoed ==
    LET out == Outbound IN
    /\ Len(out) = Len(sent)
    /\ \A i \in 1..Len(out) :
          IsResponse(out[i]) =>
              LET m == received[sent[i].for]
              IN  Has(m, "id") /\ out[i].f["id"] = m.f["id"]

C2_Witness ==
    LET out == Outbound IN
    \E i, j \in 1..Len(out) :
        /\ IsResponse(out[i]) /\ out[i].f["id"] = IntVal(1)
        /\ IsResponse(out[j]) /\ out[j].f["id"] = StrVal("a")
        /\ Has(out[i], "result") /\ Has(out[j], "error")

\* C3: a Request whose method handle_message does not know is answered with
\* exactly one message, an error Response with code -32601, the Request's id
\* and a text naming the method, and the loop goes on.
C3_UnknownRequestMethodNotFound ==
    LET out == Outbound IN
    \A k \in 1..Len(received) :
        LET m == received[k]
        IN  (IsRequest(m) /\ MethodOf(m) \notin KnownMethods) =>
                /\ Cardinality(WrittenFor(out, k)) = 1
                /\ \A i \in WrittenFor(out, k) :
                      IsError(out[i], m.f["id"], -32601,
                              "Method not found: " \o MethodOf(m))
                /\ ~AbortedOn(k)

C3_Witness ==
    LET out == Outbound IN
    \E k \in 1..Len(received) :
        /\ IsRequest(received[k])
        /\ MethodOf(received[k]) = "buildTarget/outputPaths"
        /\ k < Len(received)
        /\ WrittenFor(out, k) # {}

\* C4: a Notification whose method is unknown writes nothing, and the loop
\* goes on.
C4_UnknownNotificationDropped ==
    LET out == Outbound IN
    \A k \in 1..Len(received) :
        LET m == received[k]
        IN  (IsNotification(m) /\ MethodOf(m) \notin KnownMethods) =>
                WrittenFor(out, k) = {} /\ ~AbortedOn(k)

C4_Witness ==
    LET out == Outbound IN
    \E k \in 1..Len(received) :
        /\ IsNotification(received[k])
        /\ MethodOf(received[k]) = "buildTarget/outputPaths"
        /\ k < Len(received)
        /\ WrittenFor(out, k + 1) # {}

\* C5: a message without id for build/initialize or build/shutdown writes
\* nothing, its return value is discarded, and the loop goes on.
C5_NotificationResultDiscarded ==
    LET out == Outbound IN
    \A k \in 1..Len(received) :
        LET m == received[k]
        IN  (IsNotification(m) /\ MethodOf(m) \in {"build/initialize", "build/shutdown"}) =>
                WrittenFor(out, k) = {} /\ ~AbortedOn(k)

\* C6: when handling a Request raises RequestError(code, message), exactly
\* one Response is written for it, an error Response with that code and
\* message and the Request's id and no result, and the loop goes on.
C6_RequestErrorMapped ==
    LET out == Outbound IN
    \A k \in 1..Len(received) :
        LET m == received[k]
            e == handle_message(server, m)
        IN  (IsRequest(m) /\ e.kind = "RequestError") =>
                /\ Cardinality(ResponsesFor(out, k)) = 1
                /\ \A i \in ResponsesFor(out, k) :
                      IsError(out[i], m.f["id"], e.code, e.message)
                /\ ~AbortedOn(k)

C6_Witness ==
    LET out == Outbound IN
    \E k \in 1..Len(received) :
        /\ IsRequest(received[k])
        /\ MethodOf(received[k]) = "buildTarget/sources"
        /\ \E i \in ResponsesFor(out, k) : Has(out[i], "error")
        /\ k < Len(received)

\* C7: once a build/exit notification has been dispatched, no later frame is
\* dispatched and nothing more is written.
C7_ExitHaltsLoop ==
    \A k \in 1..Len(received) :
        (IsNotification(received[k]) /\ MethodOf(received[k]) = "build/exit") =>
            /\ k = Len(received)
            /\ \A i \in 1..Len(sent) : sent[i].for <= k

\* C8: a build/shutdown Request is answered with exactly one message, the
\* success Response with result {} and the Request's id; the loop goes on,
\* and afterwards run() returns only at end-of-stream.
C8_ShutdownAnsweredAndRunning ==
    LET out == Outbound IN
    \A k \in 1..Len(received) :
        LET m == received[k]
        IN  (IsRequest(m) /\ MethodOf(m) = "build/shutdown") =>
                /\ Cardinality(WrittenFor(out, k)) = 1
                /\ \A i \in WrittenFor(out, k) : IsSuccess(out[i], m.f["id"], EmptyDict)
                /\ ~AbortedOn(k)
                /\ pc = "returned" => (stdinClosed /\ stdin = <<>>)

C8_Witness ==
    LET out == Outbound IN
    \E k \in 1..Len(received) :
        /\ IsRequest(received[k])
        /\ MethodOf(received[k]) = "build/shutdown"
        /\ k < Len(received)
        /\ IsRequest(received[k + 1])
        /\ ResponsesFor(out, k) # {}
        /\ ResponsesFor(out, k + 1) # {}

\* C9: at end-of-stream on a frame boundary (the header readline() finds
\* nothing to read) run() returns: no exception, no handler invoked, nothing
\* written.
C9_EndOfStreamReturns ==
    [][(pc = "ReadHeader" /\ stdin = <<>> /\ stdinClosed) =>
          (pc' = "returned" /\ exc' = "" /\ UNCHANGED <<stdout, received, sent>>)]_vars

C9_Witness ==
    /\ pc = "returned"
    /\ exc = ""
    /\ Len(received) >= 1
    /\ stdinClosed

\* A header line that is not "Content-Length:" followed by one integer.
BadHeader(line) ==
    ~ /\ Len(line) >= 2
      /\ line[1] = TokCL
      /\ \E j \in 2..Len(line) :
            /\ line[j].t = "num"
            /\ \A i \in 2..Len(line) : i # j => IsSpace(line[i])

\* C10: when the header line of a frame is not "Content-Length:" followed by
\* an integer, run() is left by an exception at that line: no handler is
\* invoked, nothing is written, and afterwards nothing more is read,
\* dispatched or written.
C10_BadHeaderAborts ==
    [][/\ (/\ pc = "ReadHeader"
           /\ pc' # pc
           /\ ReadLine(stdin, stdinClosed).data # <<>>
           /\ BadHeader(ReadLine(stdin, stdinClosed).data))
          => /\ pc' = "raised"
             /\ exc' \in {"AssertionError", "ValueError"}
             /\ UNCHANGED <<stdout, received, sent>>
       /\ pc = "raised" => ServerIdle]_vars

C10_Witness ==
    /\ pc = "raised"
    /\ exc = "AssertionError"
    /\ received = <<>>
    /\ stdout = <<>>
    /\ nframes >= 2
    /\ Len(stdin) > 0

\* C11: when the inbound stream ends before the `length` units of a body
\* have arrived, reading the body ends run() with an exception: the partial
\* frame is not dispatched, no handler is invoked and nothing is written.
C11_PartialFrameNeverDispatched ==
    [][(pc = "ReadBody" /\ stdinClosed /\ Len(stdin) < length /\ pc' # pc)
          => (pc' = "raised" /\ UNCHANGED <<stdout, received, sent>>)]_vars

\* The peer's reading of the bytes w of one frame: the position of the first
\* "\r", the number written in decimal before it, and the bytes after the
\* blank line.
FirstCR(w) == CHOOSE i \in 1..Len(w) : w[i] = 13 /\ \A j \in 1..(i - 1) : w[j] # 13

RECURSIVE DecimalValue(_)
DecimalValue(ds) ==
    IF ds = <<>> THEN 0
    ELSE 10 * DecimalValue(SubSeq(ds, 1, Len(ds) - 1)) + (ds[Len(ds)] - 48)

WireLength(w) == DecimalValue(SubSeq(w, Len(ContentLengthChars) + 1, FirstCR(w) - 1))
WirePayload(w) == SubSeq(w, FirstCR(w) + 4, Len(w))

\* C12: in the bytes written for a message, the decimal number of the
\* Content-Length header is the number of bytes that follow the blank line,
\* whatever characters the message's strings hold.
C12_ContentLengthCountsBytes ==
    wire # <<>> =>
        /\ SubSeq(wire, 1, Len(ContentLengthChars)) = ContentLengthChars
        /\ SubSeq(wire, FirstCR(wire), FirstCR(wire) + 3) = <<13, 10, 13, 10>>
        /\ \A i \in (Len(ContentLengthChars) + 1)..(FirstCR(wire) - 1) : wire[i] \in 48..57
        /\ WireLength(wire) = Len(WirePayload(wire))

C12_Witness ==
    /\ wire # <<>>
    /\ \E i, j \in 1..Len(chars) : chars[i] = 233 /\ chars[j] = 128512
    /\ WireLength(wire) >= 10

\* fr is what send_raw_message writes for some message.
IsSentFrame(fr) ==
    /\ Len(fr) > 6
    /\ LET j == JsonLoads(SubSeq(fr, 7, Len(fr)))
       IN  j.ok /\ IsDict(j.val) /\ Frame(j.val) = fr

\* The first k frames fed to stdin were all written by send_raw_message.
AllSentFrames(k) == \A j \in 1..k : IsSentFrame(written[j])

RECURSIVE Concat(_)
Concat(frs) == IF frs = <<>> THEN <<>> ELSE Head(frs) \o Concat(Tail(frs))

\* C13: as long as stdin is fed frames written by send_raw_message, the
\* k-th message the receive steps of run() hand to the dispatcher is the
\* message of the k-th frame, the receive steps raise nothing, and at every
\* frame boundary stdin holds exactly the frames not yet received.
C13_RoundTrip ==
    /\ \A k \in 1..Len(received) :
          AllSentFrames(k) => Frame(received[k]) = written[k]
    /\ (pc = "ReadHeader" /\ AllSentFrames(Len(received))) =>
          stdin = Concat(SubSeq(written, Len(received) + 1, Len(written)))
    /\ (pc = "raised" /\ exc \in FramingErrors) =>
          \E j \in 1..Len(written) : j <= Len(received) + 1 /\ ~IsSentFrame(written[j])

C13_Witness ==
    /\ Len(received) >= 2
    /\ AllSentFrames(2)
    /\ \E i, j \in 1..2 :
          /\ IsRequest(received[i]) /\ received[i].f["id"] = StrVal("a")
          /\ (Has(received[j], "result") \/ IsNotification(received[j]))

\* The ids of the Responses among the messages `out`, in order.
ResponseIds(out) ==
    LET rs == SelectSeq(out, IsResponse) IN [i \in 1..Len(rs) |-> rs[i].f["id"]]

\* The ids of the received messages whose handling writes a Response, in the
\* order they were received.
AnsweredIds ==
    LET answered(m) == \E i \in 1..Len(Step(server, m).out) : IsResponse(Step(server, m).out[i])
        ms == SelectSeq(received, answered)
    IN  [i \in 1..Len(ms) |-> ms[i].f["id"]]

\* C14: the Responses on the outbound stream carry, in order, the ids of
\* the answered Requests in the order these were received; and everything
\* written while one message was handled precedes everything written while
\* a later one was.
C14_ResponsesInRequestOrder ==
    LET out == Outbound IN
    /\ ResponseIds(out) = AnsweredIds
    /\ \A i, j \in 1..Len(sent) : i < j => sent[i].for <= sent[j].for

C14_Witness ==
    LET out == Outbound IN
    /\ Len(received) >= 2
    /\ IsRequest(received[1]) /\ IsRequest(received[2])
    /\ received[1].f["id"] # received[2].f["id"]
    /\ ResponsesFor(out, 1) # {}
    /\ ResponsesFor(out, 2) # {}

\* C15: when a message is to be written and the peer has closed stdout, the
\* run loop is left cleanly: run() returns, no exception reaches the host
\* process, and nothing more is read.
C15_BrokenPipeExitsCleanly ==
    [][(pc = "Dispatch" /\ stdoutClosed /\ Step(server, message).out # <<>> /\ pc' # pc)
          => (pc' = "returned" /\ exc' = "" /\ stdin' = stdin)]_vars

IsInitializeRequest(m) == IsRequest(m) /\ MethodOf(m) = "build/initialize"

\* C16: the Responses to any two build/initialize Requests of one run,
\* whatever their ids and params and whatever was received between them,
\* carry equal results.
C16_InitializeIdempotent ==
    LET out == Outbound IN
    \A k1, k2 \in 1..Len(received) :
        (IsInitializeRequest(received[k1]) /\ IsInitializeRequest(received[k2])) =>
            \A i \in ResponsesFor(out, k1), j \in ResponsesFor(out, k2) :
                /\ Has(out[i], "result") /\ Has(out[j], "result")
                /\ out[i].f["result"] = out[j].f["result"]

C16_Witness ==
    LET out == Outbound IN
    /\ Len(received) = 3
    /\ IsInitializeRequest(received[1]) /\ IsInitializeRequest(received[3])
    /\ MethodOf(received[2]) = "build/initialized"
    /\ received[1].f["params"] # received[3].f["params"]
    /\ received[1].f["id"] # received[3].f["id"]
    /\ ResponsesFor(out, 1) # {} /\ ResponsesFor(out, 3) # {}

\* C17: a build/initialize Request is answered with exactly one message, a
\* success Response with its id whose result has bspVersion "2.0" and
\* capabilities.languageIds ["a", "b"]; the data of AbstractBuildServer
\* declares sourceKitOptionsProvider = true, and the result of
\* LegacyBuildServer is that of AbstractBuildServer without that member.
C17_InitializeResult ==
    LET out == Outbound
        abstract == initialize("AbstractBuildServer", EmptyDict).value
        others == DOMAIN abstract.f["data"].f \ {"sourceKitOptionsProvider"}
    IN  \A k \in 1..Len(received) :
            IsInitializeRequest(received[k]) =>
                /\ Cardinality(WrittenFor(out, k)) = 1
                /\ \A i \in WrittenFor(out, k) :
                      /\ Has(out[i], "result") /\ ~Has(out[i], "error")
                      /\ out[i].f["id"] = received[k].f["id"]
                      /\ LET r == out[i].f["result"]
                         IN  /\ r.f["bspVersion"] = StrVal("2.0")
                             /\ r.f["capabilities"].f["languageIds"]
                                   = ListVal(<<StrVal("a"), StrVal("b")>>)
                             /\ server = "AbstractBuildServer" =>
                                   /\ Has(r.f["data"], "sourceKitOptionsProvider")
                                   /\ r.f["data"].f["sourceKitOptionsProvider"] = BoolVal(TRUE)
                             /\ server = "LegacyBuildServer" =>
                                   /\ \A f \in DOMAIN abstract.f \ {"data"} :
                                         Has(r, f) /\ r.f[f] = abstract.f[f]
                                   /\ DOMAIN r.f = DOMAIN abstract.f
                                   /\ DOMAIN r.f["data"].f = others
                                   /\ \A f \in others :
                                         r.f["data"].f[f] = abstract.f["data"].f[f]

C17_Witness ==
    LET out == Outbound IN
    /\ server = "LegacyBuildServer"
    /\ \E k \in 1..Len(received) :
          /\ IsInitializeRequest(received[k])
          /\ received[k].f["id"] = StrVal("a")
          /\ \E i \in ResponsesFor(out, k) : Has(out[i], "result")
          /\ k < Len(received)

IsRegisterNotification(m) ==
    /\ IsNotification(m)
    /\ MethodOf(m) = "textDocument/registerForChanges"
    /\ Has(m.f["params"], "action")
    /\ m.f["params"].f["action"] = StrVal("register")

\* C18: in both testBuildTargetsChanged servers, a
\* textDocument/registerForChanges Notification with action "register" makes
\* the server write exactly one message, a buildTarget/didChange message
\* without id whose params.changes has one entry, and the loop goes on.
C18_RegisterSendsDidChange ==
    LET out == Outbound IN
    \A k \in 1..Len(received) :
        IsRegisterNotification(received[k]) =>
            /\ Cardinality(WrittenFor(out, k)) = 1
            /\ \A i \in WrittenFor(out, k) :
                  /\ IsNotification(out[i])
                  /\ MethodOf(out[i]) = "buildTarget/didChange"
                  /\ Has(out[i].f["params"], "changes")
                  /\ Len(out[i].f["params"].f["changes"].a) = 1
            /\ ~AbortedOn(k)

\* C19: every Response on the outbound stream has exactly one of the
\* members result and error.
C19_ResultXorError ==
    LET out == Outbound IN
    \A i \in 1..Len(out) :
        IsResponse(out[i]) => (Has(out[i], "result") # Has(out[i], "error"))

C19_Witness ==
    LET out == Outbound IN
    \E i, j \in 1..Len(out) :
        /\ IsResponse(out[i]) /\ Has(out[i], "result")
        /\ IsResponse(out[j]) /\ Has(out[j], "error")

\* C20: every message on the outbound stream has jsonrpc "2.0" and either
\* an id and no method (a Response) or a method and no id; what a handler
\* pushes through send_notification has a method and no id.
C20_OutboundEnvelope ==
    LET out == Outbound IN
    /\ \A i \in 1..Len(out) :
          /\ Has(out[i], "jsonrpc") /\ out[i].f["jsonrpc"] = StrVal("2.0")
          /\ Has(out[i], "id") # Has(out[i], "method")
    /\ server \notin ScriptServers =>
          \A k \in 1..Len(received) :
              LET notes == handle_message(server, received[k]).notes
              IN  \A n \in 1..Len(notes) :
                      /\ \E i \in WrittenFor(out, k) : out[i] = notes[n]
                      /\ Has(notes[n], "method") /\ ~Has(notes[n], "id")

C20_Witness ==
    LET out == Outbound IN
    /\ server = "testBuildTargetsChanged.BuildServer"
    /\ \E i, j \in 1..Len(out) :
          /\ IsNotification(out[i]) /\ MethodOf(out[i]) = "buildTarget/didChange"
          /\ IsResponse(out[j])

\* C21: when a handler raises RequestError for a message that has no id,
\* nothing is written for that message and an exception leaves run(): the
\* failure is not turned into a message on the outbound stream.
C21_IdlessRequestErrorIsFatal ==
    LET out == Outbound IN
    \A k \in 1..Len(received) :
        LET m == received[k]
        IN  (~Has(m, "id") /\ handle_message(server, m).kind = "RequestError")
            => /\ WrittenFor(out, k) = {}
               /\ AbortedOn(k)
               /\ exc = "KeyError"

C21_Witness ==
    /\ Len(received) = 2
    /\ IsRequest(received[1])
    /\ IsNotification(received[2])
    /\ MethodOf(received[2]) = "textDocument/sourceKitOptions"
    /\ handle_message(server, received[2]).kind = "RequestError"
    /\ Len(sent) = 1
    /\ pc = "raised"

\* C22: a Request for buildTarget/sources, workspace/buildTargets or
\* textDocument/sourceKitOptions is answered with exactly one message, an
\* error Response with the Request's id, code -32601 and the message
\* "'<method>' not implemented", and the loop goes on.
C22_NotImplementedAnswered ==
    LET out == Outbound IN
    \A k \in 1..Len(received) :
        LET m == received[k]
        IN  (IsRequest(m) /\ PyStr(m.f["method"]) \in NotImplementedMethods)
            => /\ \E i \in 1..Len(out) :
                     /\ WrittenFor(out, k) = {i}
                     /\ IsError(out[i], m.f["id"], -32601,
                                "'" \o MethodOf(m) \o "' not implemented")
               /\ ~AbortedOn(k)

C22_Witness ==
    LET out == Outbound IN
    /\ Len(received) = 2
    /\ IsRequest(received[1]) /\ MethodOf(received[1]) = "workspace/buildTargets"
    /\ received[1].f["id"] = StrVal("a")
    /\ IsRequest(received[2]) /\ MethodOf(received[2]) = "buildTarget/sources"
    /\ Len(out) = 2
    /\ Has(out[1], "error") /\ Has(out[2], "error")
    /\ pc = "ReadHeader"

\* C23: in the two testBuildTargets scripts, a workspace/buildTargets Request
\* with id i is answered with exactly one success Response with id i whose
\* result.targets holds exactly two descriptors, the first target and then
\* the second; the first has no dependencies and the dependencies of the
\* second contain the id of the first.
C23_TwoTargetsInOrder ==
    LET out == Outbound IN
    server \in TargetsScripts =>
    \A k \in 1..Len(received) :
        LET m == received[k]
        IN  (IsRequest(m) /\ PyStr(m.f["method"]) = "workspace/buildTargets")
            => \E i \in 1..Len(out) :
                  /\ WrittenFor(out, k) = {i}
                  /\ Has(out[i], "result") /\ ~Has(out[i], "error")
                  /\ out[i].f["id"] = m.f["id"]
                  /\ Has(out[i].f["result"], "targets")
                  /\ LET targets == out[i].f["result"].f["targets"]
                     IN  /\ targets.ty = "list" /\ Len(targets.a) = 2
                         /\ targets.a[1].f["displayName"] = StrVal("First Target")
                         /\ targets.a[2].f["displayName"] = StrVal("Second Target")
                         /\ targets.a[1].f["dependencies"] = ListVal(<<>>)
                         /\ \E d \in 1..Len(targets.a[2].f["dependencies"].a) :
                               targets.a[2].f["dependencies"].a[d] = targets.a[1].f["id"]

C23_Witness ==
    LET out == Outbound IN
    /\ server = "Tests.testBuildTargets.script"
    /\ Len(received) = 2
    /\ IsRequest(received[2]) /\ MethodOf(received[2]) = "workspace/buildTargets"
    /\ received[2].f["id"] = StrVal("a")
    /\ \E i \in WrittenFor(out, 2) : out[i].f["result"] = BuildTargetsResult(server)

\* C28: in the scripts Sources testBuildTargets, Sources
\* testBuildTargetOutputs and Tests testBuildTargetsChanged, a Request whose
\* method the script has no branch for is answered with an error Response
\* with the Request's id and code -32601, and a message without id whose
\* method the script has no branch for produces no output.
C28_ScriptUnhandledIsMethodNotFound ==
    LET out == Outbound IN
    server \in ScriptServers \ {"Tests.testBuildTargets.script"} =>
    \A k \in 1..Len(received) :
        LET m == received[k]
        IN  (Has(m, "method") /\ PyStr(m.f["method"]) \notin HandledByScript(server))
            => IF Has(m, "id")
               THEN \E i \in 1..Len(out) :
                       /\ WrittenFor(out, k) = {i}
                       /\ Has(out[i], "error") /\ ~Has(out[i], "result")
                       /\ out[i].f["id"] = m.f["id"]
                       /\ out[i].f["error"].f["code"] = IntVal(-32601)
               ELSE WrittenFor(out, k) = {} /\ ~AbortedOn(k)

\* What handling the first k dispatched messages writes, message by message.
RECURSIVE ProducedUpTo(_)
ProducedUpTo(k) ==
    IF k = 0 THEN <<>>
    ELSE LET o == Step(server, received[k]).out
         IN  ProducedUpTo(k - 1) \o [i \in 1..Len(o) |-> [msg |-> o[i], for |-> k]]

\* C24: whenever the server is at a read of the next frame, every message
\* produced while handling the messages dispatched so far (Responses and
\* pushed notifications) has been written whole and flushed; the outbound
\* stream is the frames of these messages one after the other, grouped by
\* the inbound message they were produced for, in dispatch order.
C24_WrittenAndFlushedBeforeNextRead ==
    pc \in {"ReadHeader", "ReadSeparator", "ReadBody"} =>
        /\ flushed = Len(stdout)
        /\ sent = ProducedUpTo(Len(received))
        /\ stdout = Frames([i \in 1..Len(sent) |-> sent[i].msg])

C24_Witness ==
    /\ server = "testBuildTargetsChanged.BuildServer"
    /\ pc = "ReadBody"
    /\ Len(received) = 1
    /\ IsNotification(received[1])
    /\ Len(sent) = 1
    /\ IsNotification(sent[1].msg)
    /\ flushed > 0

\* C25: for every length N the header parse accepts, negative and zero
\* included, the read of the body consumes exactly the N units after the
\* separator line when the stream holds them, and leaves the rest for the
\* next iteration.
C25_BodyReadConsumesAnnounced ==
    [][(pc = "ReadBody" /\ pc' # pc /\ Len(stdin) >= length)
        => /\ Len(stdin') = Len(stdin) - length
           /\ \A i \in 1..Len(stdin') : stdin'[i] = stdin[length + i]]_vars

\* The messages written while the k-th dispatched message was handled.
OutputFor(k) ==
    LET es == SelectSeq(sent, LAMBDA e : e.for = k)
    IN  [i \in 1..Len(es) |-> es[i].msg]

\* C26: what is written for an inbound message depends on that message
\* only: two equal messages dispatched at different points of a run, with
\* whatever messages before and between them, produce the same messages.
C26_NoLifecycleState ==
    \A k1, k2 \in 1..Len(received) :
        received[k1] = received[k2] => OutputFor(k1) = OutputFor(k2)

C26_Witness ==
    /\ Len(received) = 3
    /\ IsRequest(received[1]) /\ MethodOf(received[1]) = "build/shutdown"
    /\ IsRequest(received[2]) /\ MethodOf(received[2]) = "build/initialize"
    /\ received[3] = received[1]
    /\ Len(OutputFor(1)) = 1
    /\ Len(OutputFor(2)) = 1
    /\ Len(OutputFor(3)) = 1

\* The message of a frame written by send_raw_message.
FrameMessage(fr) == JsonLoads(SubSeq(fr, 7, Len(fr))).val

\* A frame of a Request or Notification whose handler returns.
IsServedFrame(fr) ==
    /\ IsSentFrame(fr)
    /\ IsRequest(FrameMessage(fr)) \/ IsNotification(FrameMessage(fr))
    /\ handle_message(server, FrameMessage(fr)).kind = "return"

\* C27 (safety part): when the peer has written well-formed frames only,
\* each with a handler that returns, and has closed the stream after them,
\* no exception leaves run(), and once run() has returned every frame has
\* been dispatched exactly once, in arrival order.
C27_ClosedStreamRunReturns ==
    (stdinClosed /\ \A j \in 1..Len(written) : IsServedFrame(written[j]))
    => /\ pc # "raised"
       /\ pc = "returned" =>
             /\ Len(received) = Len(written)
             /\ \A k \in 1..Len(received) : Frame(received[k]) = written[k]

\* C29: a message that has a method and no params member, with or without
\* id, whatever the method, gets nothing written for it (no Response, no
\* error Response); the failed lookup leaves run() and no later frame is
\* read.
C29_MissingParamsIsFatal ==
    LET out == Outbound IN
    \A k \in 1..Len(received) :
        LET m == received[k]
        IN  (Has(m, "method") /\ ~Has(m, "params"))
            => /\ WrittenFor(out, k) = {}
               /\ AbortedOn(k)
               /\ exc = "KeyError"

C29_Witness ==
    /\ Len(received) = 1
    /\ Has(received[1], "id")
    /\ Has(received[1], "method") /\ ~Has(received[1], "params")
    /\ received[1].f["method"] = StrVal("buildTarget/outputPaths")
    /\ pc = "raised"
    /\ stdin # <<>>
    /\ stdout = <<>>

\* C30: when the handler of a Request pushes notifications through
\* send_notification and then returns a result or raises RequestError, the
\* pushed notifications are on the outbound stream before the Response of
\* that Request and after the Responses of all earlier Requests.
C30_PushedBeforeOwnResponse ==
    LET out == Outbound IN
    \A k \in 1..Len(received) :
        LET m == received[k]
            o == handle_message(server, m)
        IN  (/\ IsRequest(m)
             /\ o.notes # <<>>
             /\ (o.kind = "return" /\ o.value # None) \/ o.kind = "RequestError")
            => /\ \E r \in WrittenFor(out, k) : ResponsesFor(out, k) = {r}
               /\ \A i \in WrittenFor(out, k) \ ResponsesFor(out, k) :
                     /\ \E n \in 1..Len(o.notes) : out[i] = o.notes[n]
                     /\ \A r \in ResponsesFor(out, k) : i < r
                     /\ \A j \in 1..(k - 1) : \A r \in ResponsesFor(out, j) : r < i
               /\ Cardinality(WrittenFor(out, k)) = Len(o.notes) + 1

C30_Witness ==
    LET out == Outbound IN
    /\ Len(received) = 2
    /\ IsRequest(received[1]) /\ MethodOf(received[1]) = "buildTarget/sources"
    /\ IsRequest(received[2]) /\ MethodOf(received[2]) = "textDocument/sourceKitOptions"
    /\ Len(out) = 4
    /\ out[1] = PushedNotification /\ Has(out[2], "error")
    /\ out[3] = PushedNotification /\ Has(out[4], "result")

\* C31: an inbound message that has no method member (a Response of the
\* peer with id and result or error, for one) gets nothing written for it
\* and is not skipped: the failed lookup leaves run() and no later frame is
\* read.
C31_MissingMethodIsFatal ==
    LET out == Outbound IN
    \A k \in 1..Len(received) :
        LET m == received[k]
        IN  (IsDict(m) /\ ~Has(m, "method"))
            => /\ WrittenFor(out, k) = {}
               /\ AbortedOn(k)
               /\ exc = "KeyError"

C31_Witness ==
    /\ Len(received) = 1
    /\ Has(received[1], "id") /\ Has(received[1], "error")
    /\ ~Has(received[1], "method")
    /\ pc = "raised"
    /\ stdin # <<>>
    /\ stdout = <<>>

====
